---- MODULE Spec2Model ----
(***************************************************************************)
(* A model of aconai's parameter-addressed local cache:                    *)
(*   DataRegistry  (src/aconai/pipelines/data_registry.py)                 *)
(*   DataProvider  (src/aconai/pipelines/data_provider.py)                 *)
(* Strings are sequences of one-character strings, so that Python's        *)
(* string comparison (max over file names) and the formatting and parsing  *)
(* of the numeric suffix are computed as the code computes them.           *)
(***************************************************************************)
EXTENDS Integers, Sequences, FiniteSets, TLC

VARIABLES
    registry,           \* DataRegistry.registry: key -> {schema, files}
    registry_file,      \* the JSON text of <data_dir>/data_registry.json
    data_files,         \* the data files on disk: file name -> contents
    pc,                 \* position inside DataProvider.cached_read
    cur,                \* the running cached_read: key, schema, params, file
    get_records_called, \* history: the slots get_records() was called for
    outcome,            \* history: how the last completed call ended
    last_production,    \* history: slot -> the records its last completed
                        \* get_records() run yielded
    returned,           \* the records the last call returned, when it was a
                        \* cached_read() that returned
    argument,           \* the data_dir argument DataRegistry() is given
    environ,            \* os.environ["DATA_CACHE_DIR"]
    data_dir,           \* DataRegistry.data_dir
    directories,        \* the directories os.makedirs() created
    registry_2          \* DataRegistry.registry of a second instance
                        \* constructed on the same root, where there is one

vars == <<registry, registry_file, data_files, pc, cur, get_records_called,
          outcome, last_production, returned, argument, environ, data_dir,
          directories, registry_2>>

\* what the constructor is given and what it resolves; fixed for a root
construction == <<argument, environ, data_dir>>

----------------------------------------------------------------------------
(* Bounds of the model *)

\* slots already registered under the first key when the process starts
PreSlots == 10
\* records one get_records() run yields at most
MaxLen == 1
\* slots a key holds at most where clients call the registry directly
MaxSlots == 2

----------------------------------------------------------------------------
(* Strings *)

\* the characters that occur, in code point order
Alphabet ==
    <<".", "/", "0", "1", "2", "3", "4", "5", "6", "7", "8", "9",
      "_", "a", "c", "d", "e", "k", "o", "r", "t", "v">>

Ord(c) == CHOOSE i \in 1..Len(Alphabet) : Alphabet[i] = c

\* Python's str < str: the first differing character decides, a proper
\* prefix is smaller
StrLess(a, b) ==
    LET n == IF Len(a) < Len(b) THEN Len(a) ELSE Len(b)
        differ == {i \in 1..n : a[i] # b[i]}
    IN  IF differ = {} THEN Len(a) < Len(b)
        ELSE LET i == CHOOSE j \in differ : \A l \in differ : j <= l
             IN  Ord(a[i]) < Ord(b[i])

\* Python's max() over a non-empty list of strings
RECURSIVE StrMax(_)
StrMax(strs) ==
    LET s == CHOOSE x \in strs : TRUE
    IN  IF strs = {s} THEN s
        ELSE LET m == StrMax(strs \ {s})
             IN  IF StrLess(m, s) THEN s ELSE m

Digits == <<"0", "1", "2", "3", "4", "5", "6", "7", "8", "9">>

\* str(n) for n >= 0, as in the f-string f"data_{num}.avro"
RECURSIVE IntToStr(_)
IntToStr(n) ==
    IF n < 10 THEN <<Digits[n + 1]>>
    ELSE IntToStr(n \div 10) \o <<Digits[(n % 10) + 1]>>

DigitValue(c) == (CHOOSE i \in 1..10 : Digits[i] = c) - 1

\* int(s) for a string of decimal digits
RECURSIVE StrToInt(_)
StrToInt(s) ==
    IF Len(s) = 0 THEN 0
    ELSE 10 * StrToInt(SubSeq(s, 1, Len(s) - 1)) + DigitValue(s[Len(s)])

\* the last position of character c in s, 0 when there is none
LastIndexOf(s, c) ==
    IF \E i \in 1..Len(s) : s[i] = c
    THEN CHOOSE i \in 1..Len(s) : s[i] = c /\ \A j \in (i + 1)..Len(s) : s[j] # c
    ELSE 0

\* os.path.splitext(name)[0]
SplitExtRoot(name) ==
    LET dot == LastIndexOf(name, ".")
        sep == LastIndexOf(name, "/")
    IN  IF dot > sep + 1 THEN SubSeq(name, 1, dot - 1) ELSE name

\* root.split("_")[-1]
LastUnderscoreField(root) == SubSeq(root, LastIndexOf(root, "_") + 1, Len(root))

\* f"data_{num}.avro"
DataFileName(num) ==
    <<"d", "a", "t", "a", "_">> \o IntToStr(num) \o <<".", "a", "v", "r", "o">>

\* os.path.join(a, b) for a relative b
PathJoin(a, b) == a \o <<"/">> \o b

----------------------------------------------------------------------------
(* Inputs: the keys, schemas, parameter maps and records of the tests *)

\* the registry's root directory
DataDir == <<"/", "c">>

\* the directory DATA_CACHE_DIR names
EnvDir == <<"/", "e">>

\* an Optional[str]: None, or a string
None == [is_none |-> TRUE, str |-> <<>>]
Some(str) == [is_none |-> FALSE, str |-> str]

\* the registry keys "t.a" and "t.k"
Key1 == <<"t", ".", "a">>
Key2 == <<"t", ".", "k">>

\* the two schemas of test_validate_schema: a schema is its name and its
\* fields
Schema1 ==
    [name |-> "TestRecord",
     fields |-> <<[name |-> "field1", type |-> "string"],
                  [name |-> "field2", type |-> "int"]>>]
Schema2 ==
    [name |-> "TestRecord2",
     fields |-> <<[name |-> "field1", type |-> "string"],
                  [name |-> "field2", type |-> "int"],
                  [name |-> "field3", type |-> "float"]>>]

\* a dict key is a str or an int; an int key is given by its decimal text
StrKey(text) == [is_int |-> FALSE, text |-> text]
IntKey(text) == [is_int |-> TRUE, text |-> text]

\* a parameter dict is the set of its items; dict equality is set equality
ParamsEmpty == {}
ParamsA == {<<StrKey("station"), 1>>, <<StrKey("years"), 1>>}
\* the parameters of the i-th slot that an earlier process registered
ParamsOld(i) == {<<StrKey("station"), 100 + i>>, <<StrKey("years"), 1>>}
\* a parameter dict with an int key, {1: 1}
ParamsInt == {<<IntKey("1"), 1>>}

\* the provider objects of the model: what registry_key(), get_schema()
\* and get_parameters() return for each.  One provider reuses Key1 with
\* another schema (registry_key() can be overridden).
Providers ==
    {[key |-> Key1, schema |-> Schema1, params |-> ParamsEmpty],
     [key |-> Key1, schema |-> Schema1, params |-> ParamsA],
     [key |-> Key1, schema |-> Schema2, params |-> ParamsA],
     [key |-> Key2, schema |-> Schema2, params |-> ParamsEmpty]}

Keys == {p.key : p \in Providers}

\* the slots the providers address
Slots == {<<p.key, p.params>> : p \in Providers}

\* get_records() of the provider tests: {"test": 1}, then {"test": 2}
GetRecords == <<[test |-> 1], [test |-> 2]>>

\* the raw records {"test": 1} and {"test": 2} of the provider tests
Records == {GetRecords[i] : i \in DOMAIN GetRecords}

----------------------------------------------------------------------------
(* DataRegistry *)

\* Schema.to_json()
SchemaToJson(schema) ==
    [type |-> "record", name |-> schema.name, fields |-> schema.fields]

\* avro.schema.parse(json.dumps(doc))
SchemaParse(doc) == [name |-> doc.name, fields |-> doc.fields]

\* json.dump writes every dict key as a string: the key 1 becomes "1"
JsonKey(k) == StrKey(k.text)

\* json.dump of a parameter dict
JsonParameters(params) == {<<JsonKey(m[1]), m[2]>> : m \in params}

\* json.dump(self.registry, ...): a JSON object is the set of its members
JsonDump(reg) ==
    {<<k, [reg[k] EXCEPT !.files =
              [i \in 1..Len(@) |->
                  [@[i] EXCEPT !.parameters = JsonParameters(@)]]]>> :
        k \in DOMAIN reg}

\* json.load(f)
JsonLoad(doc) ==
    [k \in {m[1] : m \in doc} |-> (CHOOSE m \in doc : m[1] = k)[2]]

\* a save that forgets which files are marked written
UpdateRegistryWithoutMarks(reg) ==
    JsonDump([k \in DOMAIN reg |->
                 [reg[k] EXCEPT !.files =
                     [i \in 1..Len(@) |-> [@[i] EXCEPT !.is_marked_written = FALSE]]]])

\* _update_registry: the registry file holds the dump of the registry
UpdateRegistry(reg) == JsonDump(reg)

\* RegisteredFile(file_name, is_marked_written)
RegisteredFile(file_name, is_marked_written) ==
    [file_name |-> file_name, is_marked_written |-> is_marked_written]

\* what a call that raised returns
NoFile == RegisteredFile(<<>>, FALSE)

\* key.replace(".", os.sep)
KeyFolders(key) == [i \in 1..Len(key) |-> IF key[i] = "." THEN "/" ELSE key[i]]

\* _ensure_path_exists: the directory of the key
EnsurePathExists(key) == PathJoin(data_dir, KeyFolders(key))

\* a _validate_schema that lets a known key adopt the schema it is given
ValidateSchemaAdopting(reg, disk, key, schema) ==
    LET adopted == (key :> [schema |-> SchemaToJson(schema),
                            files |-> IF key \in DOMAIN reg
                                      THEN reg[key].files ELSE <<>>]) @@ reg
    IN  [registry |-> adopted, registry_file |-> JsonDump(adopted),
         valid |-> TRUE]

\* a _validate_schema that stores the schema it rejects
ValidateSchemaOverwriting(reg, disk, key, schema) ==
    IF key \notin DOMAIN reg
    THEN LET added == reg @@ (key :> [schema |-> SchemaToJson(schema),
                                       files |-> <<>>])
         IN  [registry |-> added, registry_file |-> UpdateRegistry(added),
              valid |-> TRUE]
    ELSE IF SchemaParse(reg[key].schema) = schema
    THEN [registry |-> reg, registry_file |-> disk, valid |-> TRUE]
    ELSE LET stored == [reg EXCEPT ![key].schema = SchemaToJson(schema)]
         IN  [registry |-> stored, registry_file |-> UpdateRegistry(stored),
              valid |-> FALSE]

\* _validate_schema: a new key adopts the schema and is saved; a known key
\* compares the stored schema with the given one
ValidateSchema(reg, disk, key, schema) ==
    IF key \notin DOMAIN reg
    THEN LET added == reg @@ (key :> [schema |-> SchemaToJson(schema),
                                       files |-> <<>>])
         IN  [registry |-> added, registry_file |-> UpdateRegistry(added),
              valid |-> TRUE]
    ELSE [registry |-> reg, registry_file |-> disk,
          valid |-> SchemaParse(reg[key].schema) = schema]

\* the name register() gives a new file, from the names already listed
NextFileName(names) ==
    IF names = {} THEN DataFileName(0)
    ELSE LET latest_file == StrMax(names)
             root == SplitExtRoot(latest_file)
             num == StrToInt(LastUnderscoreField(root)) + 1
         IN  DataFileName(num)

\* a register() that reuses only the files already marked written
SameParametersIfWritten(file, params) ==
    file.parameters = params /\ file.is_marked_written

\* register(), line 137: the file's parameters equal the given ones
SameParameters(file, params) == file.parameters = params

\* register(): [registry, registry_file, err, ret] after the call, and the
\* directory _ensure_path_exists made sure of
Register(reg, disk, key, schema, params) ==
    LET v == ValidateSchema(reg, disk, key, schema) IN
    IF ~v.valid
    THEN [registry |-> v.registry, registry_file |-> v.registry_file,
          err |-> "SchemaConflict", ret |-> NoFile, made_dirs |-> {}]
    ELSE
    LET files == v.registry[key].files
        found == {i \in 1..Len(files) : SameParameters(files[i], params)}
    IN  IF found # {}
        THEN LET i == CHOOSE j \in found : \A l \in found : j <= l
             IN  [registry |-> v.registry, registry_file |-> v.registry_file,
                  err |-> "none",
                  ret |-> RegisteredFile(files[i].file_name,
                                         files[i].is_marked_written),
                  made_dirs |-> {}]
        ELSE LET names == {files[i].file_name : i \in 1..Len(files)}
                 path == EnsurePathExists(key)
                 file_name == PathJoin(path, NextFileName(names))
                 added == [v.registry EXCEPT ![key].files =
                              Append(@, [file_name |-> file_name,
                                         parameters |-> params,
                                         is_marked_written |-> FALSE])]
             IN  [registry |-> added, registry_file |-> UpdateRegistry(added),
                  err |-> "none", ret |-> RegisteredFile(file_name, FALSE),
                  made_dirs |-> {path}]

\* a mark_written() that marks every file of the key
MarkWrittenWholeKey(reg, disk, key, file_name) ==
    IF key \notin DOMAIN reg
    THEN [registry |-> reg, registry_file |-> disk, err |-> "KeyError",
          ret |-> NoFile]
    ELSE
    LET files == reg[key].files
        found == {i \in 1..Len(files) : files[i].file_name = file_name}
    IN  IF found = {}
        THEN [registry |-> reg, registry_file |-> disk,
              err |-> "FileNotFoundInRegistry", ret |-> NoFile]
        ELSE LET marked == [reg EXCEPT ![key].files =
                               [i \in 1..Len(files) |->
                                   [files[i] EXCEPT !.is_marked_written = TRUE]]]
             IN  [registry |-> marked, registry_file |-> UpdateRegistry(marked),
                  err |-> "none", ret |-> RegisteredFile(file_name, TRUE)]

\* mark_written(): the first file of the key with that name is marked
MarkWritten(reg, disk, key, file_name) ==
    IF key \notin DOMAIN reg
    THEN [registry |-> reg, registry_file |-> disk, err |-> "KeyError",
          ret |-> NoFile]
    ELSE
    LET files == reg[key].files
        found == {i \in 1..Len(files) : files[i].file_name = file_name}
    IN  IF found = {}
        THEN [registry |-> reg, registry_file |-> disk,
              err |-> "FileNotFoundInRegistry", ret |-> NoFile]
        ELSE LET i == CHOOSE j \in found : \A l \in found : j <= l
                 marked == [reg EXCEPT
                               ![key].files[i].is_marked_written = TRUE]
             IN  [registry |-> marked, registry_file |-> UpdateRegistry(marked),
                  err |-> "none", ret |-> RegisteredFile(file_name, TRUE)]

\* the registry after an earlier process registered n slots under Key1
RECURSIVE Preloaded(_)
Preloaded(n) ==
    IF n = 0 THEN <<>>
    ELSE LET before == Preloaded(n - 1)
         IN  Register(before, UpdateRegistry(before), Key1, Schema1,
                      ParamsOld(n)).registry

\* a constructor that prefers the environment variable to its argument
ResolveDataDirEnvFirst(arg, env) == IF ~env.is_none THEN env ELSE arg

\* DataRegistry.__init__, lines 42-47: the argument, else the environment
\* variable; None when neither is given
ResolveDataDir(arg, env) == IF ~arg.is_none THEN arg ELSE env

\* a constructor that starts every registry empty and saves it
DataRegistryInitFresh(root_exists, disk) ==
    [registry |-> <<>>, registry_file |-> UpdateRegistry(<<>>)]

\* DataRegistry.__init__: a missing root is created with an empty registry
\* that is saved; an existing root's registry file is loaded
DataRegistryInit(root_exists, disk) ==
    IF ~root_exists
    THEN [registry |-> <<>>, registry_file |-> UpdateRegistry(<<>>)]
    ELSE [registry |-> JsonLoad(disk), registry_file |-> disk]

----------------------------------------------------------------------------
(* State *)

Idle == [key |-> <<>>, params |-> {}, file_name |-> <<>>, yielded |-> <<>>]

\* the roots a process can start on: none, or the one an earlier process
\* left after registering PreSlots slots under Key1
ExistingRoots == {UpdateRegistry(Preloaded(PreSlots))}

Init ==
    /\ argument = Some(DataDir)
    /\ environ = None
    /\ data_dir = ResolveDataDir(argument, environ).str
    /\ \E start \in {[exists |-> FALSE, disk |-> {}]}
                    \cup {[exists |-> TRUE, disk |-> d] : d \in ExistingRoots} :
          LET made == DataRegistryInit(start.exists, start.disk)
          IN  /\ registry = made.registry
              /\ registry_file = made.registry_file
              /\ directories = {data_dir} \cup
                     {EnsurePathExists(k) : k \in DOMAIN made.registry}
    /\ data_files = <<>>
    /\ pc = "idle"
    /\ cur = Idle
    /\ get_records_called = {}
    /\ outcome = "constructed"
    /\ last_production = <<>>
    /\ returned = <<>>
    /\ registry_2 = <<>>

----------------------------------------------------------------------------
(* Operations *)

\* a client calls registry.register(key, schema, params)
RegisterCall(p) ==
    /\ pc = "idle"
    /\ LET r == Register(registry, registry_file, p.key, p.schema, p.params)
       IN  /\ registry' = r.registry
           /\ registry_file' = r.registry_file
           /\ outcome' = IF r.err # "none" THEN "register:SchemaConflict"
                         ELSE IF r.registry = registry THEN "register:found"
                         ELSE "register:new"
           /\ directories' = directories \cup r.made_dirs
    /\ returned' = <<>>
    /\ UNCHANGED <<data_files, pc, cur, get_records_called, last_production>>
    /\ UNCHANGED <<construction, registry_2>>

\* an open(file_name, "ab"): the records already in the file are kept
OpenForAppending(files, file_name, slot) ==
    (file_name :> [records |-> IF file_name \in DOMAIN files
                               THEN files[file_name].records ELSE <<>>,
                   closed |-> FALSE, by |-> slot]) @@ files

\* open(file_name, "wb") and DataFileWriter(...): the file is created or
\* truncated; `by` records the slot whose run opened it
OpenForWriting(files, file_name, slot) ==
    (file_name :> [records |-> <<>>, closed |-> FALSE, by |-> slot]) @@ files

\* cached_read, lines 31-34 and 36: register() raises on a schema conflict
CachedReadConflict(p) ==
    /\ pc = "idle"
    /\ LET r == Register(registry, registry_file, p.key, p.schema, p.params)
       IN  /\ r.err # "none"
           /\ registry' = r.registry
           /\ registry_file' = r.registry_file
    /\ outcome' = "cached_read:SchemaConflict"
    /\ returned' = <<>>
    /\ UNCHANGED <<data_files, pc, cur, get_records_called, last_production,
                   directories>>
    /\ UNCHANGED <<construction, registry_2>>

\* a cached_read that ignores the written mark
SkipsProductionNever(registered_file) == FALSE

\* whether cached_read skips production for the descriptor register() gave
SkipsProduction(registered_file) == registered_file.is_marked_written

\* record_as_type(), as TypedDataProvider overrides it: record["test"]
RecordAsType(record) == record.test

\* cached_read, lines 42-43: the records of the file, each converted by
\* record_as_type(); a file that does not exist cannot be opened
CachedReadResult(files, file_name) ==
    IF file_name \in DOMAIN files
    THEN [i \in 1..Len(files[file_name].records) |->
             RecordAsType(files[file_name].records[i])]
    ELSE <<>>

\* cached_read, lines 31-36 and 42-43: the slot is marked written, the file
\* is only opened for reading
CachedReadServed(p) ==
    /\ pc = "idle"
    /\ LET r == Register(registry, registry_file, p.key, p.schema, p.params)
       IN  /\ r.err = "none"
           /\ SkipsProduction(r.ret)
           /\ registry' = r.registry
           /\ registry_file' = r.registry_file
           /\ outcome' = IF r.ret.file_name \in DOMAIN data_files
                         THEN "cached_read:served"
                         ELSE "cached_read:FileNotFoundError"
           /\ returned' = CachedReadResult(data_files, r.ret.file_name)
    /\ UNCHANGED <<data_files, pc, cur, get_records_called, last_production,
                   directories>>
    /\ UNCHANGED <<construction, registry_2>>

\* a cached_read that marks the slot written before it produces
CachedReadProduceMarksFirst(p) ==
    /\ pc = "idle"
    /\ LET r == Register(registry, registry_file, p.key, p.schema, p.params)
           m == MarkWritten(r.registry, r.registry_file, p.key, r.ret.file_name)
       IN  /\ r.err = "none"
           /\ ~SkipsProduction(r.ret)
           /\ registry' = m.registry
           /\ registry_file' = m.registry_file
           /\ data_files' = OpenForWriting(data_files, r.ret.file_name,
                                           <<p.key, p.params>>)
           /\ cur' = [key |-> p.key, params |-> p.params,
                      file_name |-> r.ret.file_name, yielded |-> <<>>]
           /\ directories' = directories \cup r.made_dirs
    /\ get_records_called' = get_records_called \cup {<<p.key, p.params>>}
    /\ pc' = "writing"
    /\ UNCHANGED <<outcome, last_production, returned>>
    /\ UNCHANGED <<construction, registry_2>>

\* cached_read, lines 31-38: the slot is not marked written, the file is
\* opened for writing and get_records() is called
CachedReadProduce(p) ==
    /\ pc = "idle"
    /\ LET r == Register(registry, registry_file, p.key, p.schema, p.params)
       IN  /\ r.err = "none"
           /\ ~SkipsProduction(r.ret)
           /\ registry' = r.registry
           /\ registry_file' = r.registry_file
           /\ data_files' = OpenForWriting(data_files, r.ret.file_name,
                                           <<p.key, p.params>>)
           /\ cur' = [key |-> p.key, params |-> p.params,
                      file_name |-> r.ret.file_name, yielded |-> <<>>]
           /\ directories' = directories \cup r.made_dirs
    /\ get_records_called' = get_records_called \cup {<<p.key, p.params>>}
    /\ pc' = "writing"
    /\ UNCHANGED <<outcome, last_production, returned>>
    /\ UNCHANGED <<construction, registry_2>>

\* cached_read, lines 38-39: get_records() yields its next record and
\* writer.append(record) adds it to the file
WriterAppend(record) ==
    /\ pc = "writing"
    /\ Len(data_files[cur.file_name].records) < MaxLen
    /\ Len(cur.yielded) < Len(GetRecords)
    /\ record = GetRecords[Len(cur.yielded) + 1]
    /\ data_files' = [data_files EXCEPT
                         ![cur.file_name].records = Append(@, record)]
    /\ cur' = [cur EXCEPT !.yielded = Append(@, record)]
    /\ UNCHANGED <<registry, registry_file, pc, get_records_called, outcome,
                   last_production, returned, directories>>
    /\ UNCHANGED <<construction, registry_2>>

\* a cached_read that calls mark_written() on the way out of an exception
ProductionRaisesThenMarks ==
    /\ pc = "writing"
    /\ pc' = "idle"
    /\ cur' = Idle
    /\ outcome' = "cached_read:ProductionError"
    /\ LET r == MarkWritten(registry, registry_file, cur.key, cur.file_name)
       IN  registry' = r.registry /\ registry_file' = r.registry_file
    /\ returned' = <<>>
    /\ UNCHANGED <<data_files, get_records_called, last_production,
                   directories>>
    /\ UNCHANGED <<construction, registry_2>>

\* cached_read, lines 38-39: get_records() or writer.append() raises; the
\* exception leaves cached_read
ProductionRaises ==
    /\ pc = "writing"
    /\ pc' = "idle"
    /\ cur' = Idle
    /\ outcome' = "cached_read:ProductionError"
    /\ returned' = <<>>
    /\ UNCHANGED <<registry, registry_file, data_files, get_records_called,
                   last_production, directories>>
    /\ UNCHANGED <<construction, registry_2>>

\* cached_read, line 40: get_records() is exhausted, writer.close()
WriterClose ==
    /\ pc = "writing"
    /\ data_files' = [data_files EXCEPT ![cur.file_name].closed = TRUE]
    /\ pc' = "closed"
    /\ last_production' =
          (<<cur.key, cur.params>> :> cur.yielded) @@ last_production
    /\ UNCHANGED <<registry, registry_file, cur, get_records_called, outcome,
                   returned, directories>>
    /\ UNCHANGED <<construction, registry_2>>

\* cached_read, lines 41-43: mark_written(), then the file is opened for
\* reading and the call returns
CachedReadMarkWritten ==
    /\ pc = "closed"
    /\ LET r == MarkWritten(registry, registry_file, cur.key, cur.file_name)
       IN  /\ registry' = r.registry
           /\ registry_file' = r.registry_file
           /\ outcome' = IF r.err = "none" THEN "cached_read:produced"
                         ELSE "cached_read:MarkWrittenError"
           /\ returned' = IF r.err = "none"
                          THEN CachedReadResult(data_files, cur.file_name)
                          ELSE <<>>
    /\ pc' = "idle"
    /\ cur' = Idle
    /\ UNCHANGED <<data_files, get_records_called, last_production,
                   directories>>
    /\ UNCHANGED <<construction, registry_2>>

\* the process ends and a new one constructs DataRegistry on the same root
Reload ==
    /\ pc = "idle"
    /\ LET made == DataRegistryInit(TRUE, registry_file)
       IN  /\ registry' = made.registry
           /\ registry_file' = made.registry_file
    /\ outcome' = "constructed"
    /\ returned' = <<>>
    /\ UNCHANGED <<data_files, pc, cur, get_records_called, last_production,
                   directories>>
    /\ UNCHANGED <<construction, registry_2>>

Next ==
    \/ \E p \in Providers : RegisterCall(p)
    \/ \E p \in Providers : CachedReadConflict(p)
    \/ \E p \in Providers : CachedReadServed(p)
    \/ \E p \in Providers : CachedReadProduce(p)
    \/ \E record \in Records : WriterAppend(record)
    \/ ProductionRaises
    \/ WriterClose
    \/ CachedReadMarkWritten
    \/ Reload

Spec == Init /\ [][Next]_vars

----------------------------------------------------------------------------
(* Vocabulary of the properties *)

Schemas == {p.schema : p \in Providers}
ParamMaps == {p.params : p \in Providers}

\* the positions of the key's files in registry reg
FileIndexes(reg, key) ==
    IF key \in DOMAIN reg THEN 1..Len(reg[key].files) ELSE {}

\* the slot of (key, params) in reg: the positions register() would return
SlotIndexes(reg, key, params) ==
    {i \in FileIndexes(reg, key) : reg[key].files[i].parameters = params}

\* some slot of (key, params) is marked written
IsWritten(reg, key, params) ==
    \E i \in SlotIndexes(reg, key, params) : reg[key].files[i].is_marked_written

\* a step in which cached_read calls get_records()
ProductionStarts == pc = "idle" /\ pc' = "writing"

\* a step in which DataRegistry() is constructed again on the root
Constructs == pc = "idle" /\ pc' = "idle" /\ outcome' = "constructed"

----------------------------------------------------------------------------
(* The registry constructed from the argument or the environment on an   *)
(* empty disk; its clients then call it directly (RegistrySpec) or        *)
(* through cached_read (ClientSpec)                                       *)

\* the callers: a provider, one that reuses its key with another schema,
\* and one whose get_parameters() returns {1: 1}
Clients ==
    {[key |-> Key1, schema |-> Schema1, params |-> ParamsEmpty],
     [key |-> Key1, schema |-> Schema2, params |-> ParamsEmpty],
     [key |-> Key2, schema |-> Schema2, params |-> ParamsInt]}

\* a file name register() never gives
Nonexistent == <<"a", ".", "a", "v", "r", "o">>

\* the file names a client passes to mark_written()
MarkableNames ==
    UNION {{registry[k].files[i].file_name : i \in FileIndexes(registry, k)} :
              k \in DOMAIN registry} \cup {Nonexistent}

\* the call finds its slot, or its key has room for another one
HasRoom(p) ==
    \/ SlotIndexes(registry, p.key, p.params) # {}
    \/ Cardinality(FileIndexes(registry, p.key)) < MaxSlots

\* DataRegistry(argument) with DATA_CACHE_DIR = environ, on an empty disk
RegistryInit ==
    /\ \E arg \in {None, Some(DataDir)}, env \in {None, Some(EnvDir)} :
          /\ argument = arg
          /\ environ = env
          /\ LET resolved == ResolveDataDir(arg, env)
             IN  IF resolved.is_none
                 THEN /\ data_dir = <<>>
                      /\ directories = {}
                      /\ registry = <<>>
                      /\ registry_file = {}
                      /\ pc = "failed"
                      /\ outcome = "constructor:ValueError"
                 ELSE LET made == DataRegistryInit(FALSE, {})
                      IN  /\ data_dir = resolved.str
                          /\ directories = {resolved.str}
                          /\ registry = made.registry
                          /\ registry_file = made.registry_file
                          /\ pc = "idle"
                          /\ outcome = "constructed"
    /\ data_files = <<>>
    /\ cur = Idle
    /\ get_records_called = {}
    /\ last_production = <<>>
    /\ returned = <<>>
    /\ registry_2 = <<>>

\* a client calls mark_written(key, file_name)
MarkWrittenCall(key, file_name) ==
    /\ pc = "idle"
    /\ LET r == MarkWritten(registry, registry_file, key, file_name)
       IN  /\ registry' = r.registry
           /\ registry_file' = r.registry_file
           /\ outcome' = IF r.err = "none" THEN "mark_written:marked"
                         ELSE IF r.err = "KeyError" THEN "mark_written:KeyError"
                         ELSE "mark_written:FileNotFoundInRegistry"
    /\ returned' = <<>>
    /\ UNCHANGED <<data_files, pc, cur, get_records_called, last_production,
                   directories>>
    /\ UNCHANGED <<construction, registry_2>>

RegistryNext ==
    \/ \E p \in Clients : HasRoom(p) /\ RegisterCall(p)
    \/ \E key \in Keys, file_name \in MarkableNames :
          MarkWrittenCall(key, file_name)
    \/ Reload

RegistrySpec == RegistryInit /\ [][RegistryNext]_vars

ClientNext ==
    \/ \E p \in Clients : CachedReadConflict(p)
    \/ \E p \in Clients : CachedReadServed(p)
    \/ \E p \in Clients : HasRoom(p) /\ CachedReadProduce(p)
    \/ \E record \in Records : WriterAppend(record)
    \/ ProductionRaises
    \/ WriterClose
    \/ CachedReadMarkWritten
    \/ Reload

ClientSpec == RegistryInit /\ [][ClientNext]_vars

----------------------------------------------------------------------------
(* Two DataRegistry instances on one root: each keeps its own registry in *)
(* memory and saves it whole to the one registry file                     *)

\* DataRegistry(DataDir) makes the root, a second DataRegistry(DataDir)
\* loads the empty registry file
TwoWriterInit ==
    /\ argument = Some(DataDir)
    /\ environ = None
    /\ data_dir = ResolveDataDir(argument, environ).str
    /\ LET first == DataRegistryInit(FALSE, {})
           second == DataRegistryInit(TRUE, first.registry_file)
       IN  /\ registry = first.registry
           /\ registry_2 = second.registry
           /\ registry_file = second.registry_file
    /\ directories = {data_dir}
    /\ data_files = <<>>
    /\ pc = "idle"
    /\ cur = Idle
    /\ get_records_called = {}
    /\ outcome = "constructed"
    /\ last_production = <<>>
    /\ returned = <<>>

\* a register() that loads the registry file before it looks for the slot
RegisterCall2Loading(p) ==
    /\ pc = "idle"
    /\ LET r == Register(JsonLoad(registry_file), registry_file,
                         p.key, p.schema, p.params)
       IN  /\ registry_2' = r.registry
           /\ registry_file' = r.registry_file
           /\ outcome' = IF r.err # "none" THEN "register:SchemaConflict"
                         ELSE IF r.registry = registry_2 THEN "register:found"
                         ELSE "register:new"
           /\ directories' = directories \cup r.made_dirs
    /\ returned' = <<>>
    /\ UNCHANGED <<registry, data_files, pc, cur, get_records_called,
                   last_production>>
    /\ UNCHANGED construction

\* a client calls register() on the second instance
RegisterCall2(p) ==
    /\ pc = "idle"
    /\ LET r == Register(registry_2, registry_file,
                         p.key, p.schema, p.params)
       IN  /\ registry_2' = r.registry
           /\ registry_file' = r.registry_file
           /\ outcome' = IF r.err # "none" THEN "register:SchemaConflict"
                         ELSE IF r.registry = registry_2 THEN "register:found"
                         ELSE "register:new"
           /\ directories' = directories \cup r.made_dirs
    /\ returned' = <<>>
    /\ UNCHANGED <<registry, data_files, pc, cur, get_records_called,
                   last_production>>
    /\ UNCHANGED construction

TwoWriterNext ==
    \/ \E p \in Providers : RegisterCall(p)
    \/ \E p \in Providers : RegisterCall2(p)

TwoWriterSpec == TwoWriterInit /\ [][TwoWriterNext]_vars

----------------------------------------------------------------------------
(* C1: write-once *)

\* C1 as stated: over any sequence of cached_read() calls on one slot,
\* get_records() is invoked at most once in total.
C1_ProductionAtMostOnce ==
    [][ProductionStarts =>
          <<cur'.key, cur'.params>> \notin get_records_called]_vars

\* C1 amended: get_records() never runs for a slot that is marked written;
\* while a cached_read() is producing or closing, its slot is unwritten in
\* the registry and in the registry file.
C1_NoProductionOnceWritten ==
    pc \in {"writing", "closed"} =>
        /\ ~IsWritten(registry, cur.key, cur.params)
        /\ ~IsWritten(JsonLoad(registry_file), cur.key, cur.params)

\* a cached_read() was served from the file of a slot that an earlier
\* cached_read() had produced
C1_Witness ==
    /\ outcome = "cached_read:served"
    /\ \E slot \in get_records_called : IsWritten(registry, slot[1], slot[2])

----------------------------------------------------------------------------
(* C2: file names are unique per key *)

\* C2: no two slots under the same key have the same file name.
C2_FileNamesDistinct ==
    \A key \in DOMAIN registry :
        \A i, j \in FileIndexes(registry, key) :
            i # j => registry[key].files[i].file_name
                        # registry[key].files[j].file_name

----------------------------------------------------------------------------
(* C3: deterministic numbering *)

\* C3: the k-th slot allocated under a key (counting from 0) has the file
\* name data_<k>.avro in the key's directory.
C3_DeterministicNumbering ==
    \A key \in DOMAIN registry :
        \A i \in FileIndexes(registry, key) :
            registry[key].files[i].file_name
                = PathJoin(EnsurePathExists(key), DataFileName(i - 1))

----------------------------------------------------------------------------
(* C4: a written slot has a complete backing file *)

\* C4: every slot marked written has a backing file that a production run
\* for that slot wrote completely and closed.
C4_WrittenFileComplete ==
    \A key \in DOMAIN registry :
        \A i \in FileIndexes(registry, key) :
            LET file == registry[key].files[i] IN
            file.is_marked_written =>
                /\ file.file_name \in DOMAIN data_files
                /\ data_files[file.file_name].closed
                /\ data_files[file.file_name].by = <<key, file.parameters>>

----------------------------------------------------------------------------
(* C5: the file of a written slot is immutable *)

\* C5: once a slot is marked written, no later step opens its file for
\* writing or changes its contents.
C5_WrittenFileImmutable ==
    [][\A key \in DOMAIN registry :
          \A i \in FileIndexes(registry, key) :
              LET file == registry[key].files[i] IN
              file.is_marked_written /\ file.file_name \in DOMAIN data_files =>
                  /\ file.file_name \in DOMAIN data_files'
                  /\ data_files'[file.file_name] = data_files[file.file_name]]_vars

----------------------------------------------------------------------------
(* C6: idempotent registration *)

\* C6: for any (key, schema, parameters), a register() that succeeds and
\* the same register() called again return equal descriptors; the second
\* call adds no slot and changes nothing, and the first changes no
\* is_marked_written flag.
C6_IdempotentRegistration ==
    \A key \in Keys, schema \in Schemas, params \in ParamMaps :
        LET first == Register(registry, registry_file, key, schema, params)
            second == Register(first.registry, first.registry_file,
                               key, schema, params)
        IN  first.err = "none" =>
                /\ second.err = "none"
                /\ second.ret = first.ret
                /\ second.registry = first.registry
                /\ second.registry_file = first.registry_file
                /\ \A k \in DOMAIN registry :
                      \A i \in FileIndexes(registry, k) :
                          first.registry[k].files[i].is_marked_written
                              = registry[k].files[i].is_marked_written

\* a register() call found the slot an earlier call had allocated
C6_Witness ==
    /\ outcome = "register:found"
    /\ \E key \in DOMAIN registry : \E params \in ParamMaps :
          SlotIndexes(registry, key, params) # {}

----------------------------------------------------------------------------
(* C7: a different schema is rejected *)

\* the parameter maps of the providers and of the key's slots
KnownParams(key) ==
    ParamMaps \cup {registry[key].files[i].parameters :
                       i \in FileIndexes(registry, key)}

\* C7: when a key has a stored schema, register() with a different schema
\* fails with SchemaConflict for every parameter map, those of the key's
\* written and unwritten slots included.
C7_DifferentSchemaRejected ==
    \A key \in DOMAIN registry : \A schema \in Schemas :
        schema # SchemaParse(registry[key].schema) =>
            \A params \in KnownParams(key) :
                Register(registry, registry_file, key, schema, params).err
                    = "SchemaConflict"

\* register(Key1, Schema2, ParamsA) was rejected while Key1 holds Schema1
\* and a written slot with these parameters
C7_Witness ==
    /\ outcome = "register:SchemaConflict"
    /\ Key1 \in DOMAIN registry
    /\ SchemaParse(registry[Key1].schema) = Schema1
    /\ IsWritten(registry, Key1, ParamsA)

----------------------------------------------------------------------------
(* C8: the stored schema is that of the first registration, for ever *)

\* C8: a key enters the registry with the schema of the register() call
\* that created it, and no step (reload included) changes the schema of a
\* key, in the registry or in the registry file.
C8_SchemaNeverChanges ==
    [][/\ \A key \in DOMAIN registry :
             /\ key \in DOMAIN registry'
             /\ registry'[key].schema = registry[key].schema
             /\ key \in DOMAIN JsonLoad(registry_file')
             /\ JsonLoad(registry_file')[key].schema = registry[key].schema
       /\ \A key \in (DOMAIN registry') \ (DOMAIN registry) :
             \E p \in Providers :
                 /\ p.key = key
                 /\ SchemaParse(registry'[key].schema) = p.schema
                 /\ registry' = Register(registry, registry_file, p.key,
                                         p.schema, p.params).registry]_vars

\* Key2, registered with Schema2 by this or an earlier process, still
\* holds Schema2 after the registry was constructed again
C8_Witness ==
    /\ outcome = "constructed"
    /\ Key2 \in DOMAIN registry
    /\ SchemaParse(registry[Key2].schema) = Schema2
    /\ Key1 \in DOMAIN registry

----------------------------------------------------------------------------
(* C9: slots only move forward *)

\* C9: no step removes a slot or clears its written mark (reload included);
\* a slot is new only unwritten, and it becomes written only in
\* cached_read's mark_written() step, having been registered before.
C9_SlotsOnlyMoveForward ==
    [][/\ \A key \in DOMAIN registry :
             /\ key \in DOMAIN registry'
             /\ \A i \in FileIndexes(registry, key) :
                   /\ i \in FileIndexes(registry', key)
                   /\ registry'[key].files[i].parameters
                         = registry[key].files[i].parameters
                   /\ registry[key].files[i].is_marked_written
                         => registry'[key].files[i].is_marked_written
       /\ \A key \in DOMAIN registry' :
             \A i \in FileIndexes(registry', key) :
                 /\ i \notin FileIndexes(registry, key)
                       => ~registry'[key].files[i].is_marked_written
                 /\ (/\ i \in FileIndexes(registry, key)
                     /\ ~registry[key].files[i].is_marked_written
                     /\ registry'[key].files[i].is_marked_written)
                       => pc = "closed" /\ key = cur.key]_vars

\* a slot is still marked written after the registry was constructed again
C9_Witness ==
    /\ outcome = "constructed"
    /\ \E slot \in get_records_called : IsWritten(registry, slot[1], slot[2])

----------------------------------------------------------------------------
(* C10: a failed production leaves the slot unwritten *)

\* C10: when get_records() or writer.append() raises, the error reaches the
\* caller, the registry and its file are as they were, the slot is
\* registered and unwritten, and a following cached_read() on the slot gets
\* the same file name and runs production again.
C10_FailedProductionLeavesUnwritten ==
    [][pc = "writing" /\ pc' = "idle" =>
          /\ outcome' = "cached_read:ProductionError"
          /\ registry' = registry
          /\ registry_file' = registry_file
          /\ SlotIndexes(registry', cur.key, cur.params) # {}
          /\ ~IsWritten(registry', cur.key, cur.params)
          /\ ~IsWritten(JsonLoad(registry_file'), cur.key, cur.params)
          /\ LET again == Register(registry', registry_file', cur.key,
                                   SchemaParse(registry'[cur.key].schema),
                                   cur.params)
             IN  /\ again.err = "none"
                 /\ again.ret.file_name = cur.file_name
                 /\ ~SkipsProduction(again.ret)]_vars

\* a production that had appended a record failed, and its file is on disk
\* unclosed
C10_Witness ==
    /\ outcome = "cached_read:ProductionError"
    /\ pc = "idle"
    /\ \E f \in DOMAIN data_files :
          ~data_files[f].closed /\ Len(data_files[f].records) > 0

----------------------------------------------------------------------------
(* C11: a completed production marks its slot written *)

\* C11: when a cached_read() whose production completed returns, the slot
\* of its key and parameters is marked written.
C11_CompletedProductionMarksSlot ==
    [][pc = "closed" /\ pc' = "idle" =>
          IsWritten(registry', cur.key, cur.params)]_vars

(* C12: what cached_read() returns is what get_records() produced *)
\* C12: the records a cached_read() returns -- the call that produced the
\* slot and every later call served from its file -- are, in order, the
\* records the slot's completed production yielded, each converted by
\* record_as_type().
C12_RoundTripFidelity ==
    [][/\ (pc = "closed" /\ outcome' = "cached_read:produced") =>
              returned' = [i \in 1..Len(cur.yielded) |->
                              RecordAsType(cur.yielded[i])]
       /\ \A p \in Providers :
              (/\ CachedReadServed(p)
               /\ <<p.key, p.params>> \in DOMAIN last_production) =>
                 LET produced == last_production[<<p.key, p.params>>]
                 IN  returned' = [i \in 1..Len(produced) |->
                                     RecordAsType(produced[i])]]_vars

(* C13: reading a written slot is a pure read *)
\* C13: a cached_read() for a slot that is already written returns the
\* record sequence the cached_read() that wrote the slot returned, and it
\* changes neither the data files nor the registry.
C13_ReadOfWrittenSlotIsPure ==
    [][\A p \in Providers :
          CachedReadServed(p) =>
             /\ data_files' = data_files
             /\ registry' = registry
             /\ registry_file' = registry_file
             /\ <<p.key, p.params>> \in DOMAIN last_production =>
                   returned' =
                      [i \in 1..Len(last_production[<<p.key, p.params>>]) |->
                          RecordAsType(last_production[<<p.key, p.params>>][i])]
      ]_vars

(* C14: the registry file mirrors the registry *)
\* C14: whenever no call is running, the registry file holds the registry
\* in memory: a registry constructed on the same root has the same keys,
\* schemas, slots and marks, and register() on it returns for every caller
\* the descriptor that register() on the running instance returns.
C14_IndexFileMirrorsRegistry ==
    pc = "idle" =>
        LET reloaded == DataRegistryInit(TRUE, registry_file)
        IN  /\ reloaded.registry = registry
            /\ \A p \in Clients :
                  Register(reloaded.registry, reloaded.registry_file,
                           p.key, p.schema, p.params).ret
                  = Register(registry, registry_file,
                             p.key, p.schema, p.params).ret

(* C15: written slots survive a reload *)
\* C15: when the registry is constructed again on its root, every slot that
\* a completed cached_read() produced and that was marked written is still
\* reported written by register(), so that cached_read() skips production.
C15_WrittenSlotSurvivesReload ==
    [][Constructs =>
          \A slot \in DOMAIN last_production :
             IsWritten(registry, slot[1], slot[2]) =>
                /\ slot[1] \in DOMAIN registry'
                /\ SkipsProduction(
                      Register(registry', registry_file', slot[1],
                               SchemaParse(registry'[slot[1]].schema),
                               slot[2]).ret)]_vars

(* C16: mark_written() of a file that is not registered *)
\* C16: mark_written(key, file_name) raises the "file not found in
\* registry" error whenever no slot of the key has that file name, also
\* when the key has no entry, and then the registry and its file are
\* unchanged.
C16_UnknownFileIsRejected ==
    [][\A key \in Keys, file_name \in MarkableNames :
          (/\ MarkWrittenCall(key, file_name)
           /\ \A i \in FileIndexes(registry, key) :
                 registry[key].files[i].file_name # file_name) =>
             /\ outcome' = "mark_written:FileNotFoundInRegistry"
             /\ registry' = registry
             /\ registry_file' = registry_file]_vars

(* C17: the root directory of the registry *)
\* s starts with prefix
StartsWith(s, prefix) ==
    Len(prefix) <= Len(s) /\ SubSeq(s, 1, Len(prefix)) = prefix

\* C17: constructed with neither a data_dir argument nor DATA_CACHE_DIR, the
\* registry fails at construction: there is no registry and no directory
\* was made.  Constructed with an argument, it uses the argument whatever
\* the environment says: the root and every directory and file it makes
\* are under the argument.
C17_DataDirResolution ==
    /\ (argument.is_none /\ environ.is_none) =>
          /\ pc = "failed"
          /\ outcome = "constructor:ValueError"
          /\ directories = {}
          /\ registry = <<>>
          /\ data_files = <<>>
    /\ ~argument.is_none =>
          /\ pc # "failed"
          /\ data_dir = argument.str
          /\ argument.str \in directories
          /\ \A d \in directories : StartsWith(d, argument.str)
          /\ \A k \in DOMAIN registry : \A i \in FileIndexes(registry, k) :
                StartsWith(registry[k].files[i].file_name, argument.str)

\* a registry given both an argument and DATA_CACHE_DIR registered a slot
C17_Witness ==
    /\ ~argument.is_none
    /\ ~environ.is_none
    /\ outcome = "register:new"
    /\ \E k \in DOMAIN registry : registry[k].files # <<>>

(* C18: the mark comes after the write *)
\* C18: a slot becomes marked written only in the step of a cached_read()
\* that follows writer.close(): the file of the running call is closed and
\* holds every record get_records() yielded.  While a cached_read() is
\* still appending, its slot is not marked written.
C18_MarkOnlyAfterClose ==
    [][/\ \A k \in DOMAIN registry' : \A i \in FileIndexes(registry', k) :
             (/\ registry'[k].files[i].is_marked_written
              /\ ~(/\ i \in FileIndexes(registry, k)
                   /\ registry[k].files[i].is_marked_written)) =>
                /\ pc = "closed"
                /\ k = cur.key
                /\ registry'[k].files[i].file_name = cur.file_name
                /\ data_files[cur.file_name].closed
                /\ data_files[cur.file_name].records = cur.yielded
       /\ pc' = "writing" => ~IsWritten(registry', cur'.key, cur'.params)]_vars

\* a cached_read() that produced as many records as one run yields returned
\* with its slot marked
C18_Witness ==
    /\ pc = "idle"
    /\ outcome = "cached_read:produced"
    /\ \E slot \in DOMAIN last_production :
          /\ Len(last_production[slot]) = MaxLen
          /\ IsWritten(registry, slot[1], slot[2])

(* C19: register() of a slot that exists *)
\* C19: for a key and parameters that have a slot, register() with the
\* key's schema returns, after any step of the program, the file name the
\* slot had before the step and the slot's current mark, and it adds
\* nothing to the registry; the mark it returns is true once the slot was
\* marked, and once a cached_read() of the slot returned from mark_written().
C19_RegisterReturnsTheSlot ==
    [][\A p \in Providers :
          (/\ SlotIndexes(registry, p.key, p.params) # {}
           /\ SchemaParse(registry[p.key].schema) = p.schema) =>
             LET i == CHOOSE j \in SlotIndexes(registry, p.key, p.params) :
                         \A l \in SlotIndexes(registry, p.key, p.params) : j <= l
                 r == Register(registry', registry_file',
                               p.key, p.schema, p.params)
             IN  /\ r.err = "none"
                 /\ r.registry = registry'
                 /\ r.registry_file = registry_file'
                 /\ r.ret.file_name = registry[p.key].files[i].file_name
                 /\ r.ret.is_marked_written =
                       registry'[p.key].files[i].is_marked_written
                 /\ registry[p.key].files[i].is_marked_written =>
                       r.ret.is_marked_written
                 /\ (/\ pc = "closed"
                     /\ outcome' = "cached_read:produced"
                     /\ cur.key = p.key
                     /\ cur.params = p.params) => r.ret.is_marked_written
      ]_vars

(* C20: what a successful mark_written() changes *)
\* C20: a mark_written(key, file_name) that succeeds -- called by a client
\* or by cached_read() -- returns (file_name, True); the registry after it
\* is the registry before it with the mark set on a slot of the key that
\* has the file name, every other slot and key as before, and it is saved;
\* the same call again changes nothing.
C20_MarkWrittenSetsTheSlot ==
    [][\A key \in Keys, file_name \in MarkableNames \cup {cur.file_name} :
          (\/ outcome' = "mark_written:marked" /\ MarkWrittenCall(key, file_name)
           \/ /\ pc = "closed"
              /\ outcome' = "cached_read:produced"
              /\ key = cur.key
              /\ file_name = cur.file_name) =>
             LET again == MarkWritten(registry', registry_file', key, file_name)
             IN  /\ MarkWritten(registry, registry_file, key, file_name).ret
                       = RegisteredFile(file_name, TRUE)
                 /\ \E i \in FileIndexes(registry, key) :
                       /\ registry[key].files[i].file_name = file_name
                       /\ registry' = [registry EXCEPT
                              ![key].files[i].is_marked_written = TRUE]
                 /\ registry_file' = UpdateRegistry(registry')
                 /\ again.err = "none"
                 /\ again.registry = registry'
                 /\ again.registry_file = registry_file']_vars

\* a mark_written() succeeded and the key has another slot, still unwritten
C20_Witness ==
    /\ outcome = "cached_read:produced"
    /\ \E k \in DOMAIN registry : \E i, j \in FileIndexes(registry, k) :
          /\ registry[k].files[i].is_marked_written
          /\ ~registry[k].files[j].is_marked_written

(* C21: a slot is its parameter dict *)
\* the number of files registry reg lists under key
FileCount(reg, key) == Cardinality(FileIndexes(reg, key))

\* C21: no two slots of a key have equal parameters, and register() with
\* the key's schema adds a slot exactly when no slot of the key has
\* parameters equal to the given ones.
C21_SlotIdentityIsParameterEquality ==
    pc # "failed" =>
        /\ \A k \in DOMAIN registry : \A i, j \in FileIndexes(registry, k) :
              registry[k].files[i].parameters = registry[k].files[j].parameters
                 => i = j
        /\ \A p \in Providers \cup Clients :
              LET r == Register(registry, registry_file,
                                p.key, p.schema, p.params)
              IN  r.err = "none" =>
                     /\ FileCount(r.registry, p.key) =
                           IF SlotIndexes(registry, p.key, p.params) = {}
                           THEN FileCount(registry, p.key) + 1
                           ELSE FileCount(registry, p.key)
                     /\ SlotIndexes(r.registry, p.key, p.params) # {}

(* C22: the index only grows *)
\* index `new` holds every key of index `old`, and under each key the
\* slots of `old` at their positions with their file names and parameters
Extends(new, old) ==
    \A k \in DOMAIN old :
        /\ k \in DOMAIN new
        /\ \A i \in FileIndexes(old, k) :
              /\ i \in FileIndexes(new, k)
              /\ new[k].files[i].file_name = old[k].files[i].file_name
              /\ new[k].files[i].parameters = old[k].files[i].parameters

\* C22: no register(), mark_written() or cached_read() step removes a key
\* or a slot from the registry, reorders a key's slots or changes a slot's
\* file name or parameters; the same holds of the index in the registry
\* file over every step, the construction of a new registry included.
C22_IndexOnlyGrows ==
    [][/\ ~Constructs => Extends(registry', registry)
       /\ Extends(JsonLoad(registry_file'), JsonLoad(registry_file))]_vars

\* a key got its last slot, after slots of other parameters
C22_Witness ==
    /\ outcome = "register:new"
    /\ \E k \in DOMAIN registry : FileCount(registry, k) = MaxSlots

(* C23: keys are independent *)
\* C23: a step changes the entry of at most one key, and a slot that a step
\* adds as the n-th slot of its key (counting from 0) is named data_<n>.avro
\* in the key's directory, whatever the other keys hold.
C23_KeysAreIndependent ==
    [][/\ Cardinality({k \in DOMAIN registry' :
                          k \notin DOMAIN registry
                          \/ registry'[k] # registry[k]}) <= 1
       /\ \A k \in DOMAIN registry' :
             \A i \in FileIndexes(registry', k) \ FileIndexes(registry, k) :
                registry'[k].files[i].file_name
                   = PathJoin(EnsurePathExists(k), DataFileName(i - 1))]_vars

(* C24: the retry after a failed production *)
\* C24: when cached_read() produces for a slot that get_records() was
\* called for before, register() adds no slot and returns the slot's file
\* name, the file that is there is opened empty, and when the production
\* completes and the call returns the file is closed and holds exactly the
\* records this run yielded.
C24_RetryRewritesTheFile ==
    [][/\ (/\ pc = "idle"
           /\ pc' = "writing"
           /\ <<cur'.key, cur'.params>> \in get_records_called) =>
             /\ registry' = registry
             /\ registry_file' = registry_file
             /\ \E i \in SlotIndexes(registry, cur'.key, cur'.params) :
                   registry[cur'.key].files[i].file_name = cur'.file_name
             /\ cur'.file_name \in DOMAIN data_files
             /\ data_files'[cur'.file_name].records = <<>>
             /\ ~data_files'[cur'.file_name].closed
       /\ (pc = "closed" /\ outcome' = "cached_read:produced") =>
             /\ data_files'[cur.file_name].closed
             /\ data_files'[cur.file_name].records = cur.yielded]_vars

\* the only slot of the registry is produced again after its production
\* failed: its file is open and empty
C24_Witness ==
    /\ pc = "writing"
    /\ outcome = "cached_read:ProductionError"
    /\ DOMAIN registry = {cur.key}
    /\ FileCount(registry, cur.key) = 1
    /\ data_files[cur.file_name].records = <<>>

(* C25: the writer is closed when cached_read() ends *)
\* C25: whenever no cached_read() is running, every data file that a
\* cached_read() opened for writing has been closed.
C25_WriterClosedOnExit ==
    pc = "idle" => \A f \in DOMAIN data_files : data_files[f].closed

(* C26: a rejected register() changes nothing *)
\* C26: a register() that fails with a schema conflict, called by a client
\* or by cached_read(), returns a registry and a registry file equal to
\* those before the call and makes no directory; the step of such a call
\* leaves the registry, the registry file, the data files and the
\* directories as they were.
C26_RejectedRegisterChangesNothing ==
    [][/\ \A p \in Providers :
             LET r == Register(registry, registry_file,
                               p.key, p.schema, p.params)
             IN  r.err = "SchemaConflict" =>
                    /\ r.registry = registry
                    /\ r.registry_file = registry_file
                    /\ r.made_dirs = {}
       /\ (/\ pc = "idle"
           /\ pc' = "idle"
           /\ outcome' \in {"register:SchemaConflict",
                            "cached_read:SchemaConflict"}) =>
             /\ registry' = registry
             /\ registry_file' = registry_file
             /\ data_files' = data_files
             /\ directories' = directories]_vars

\* a register() with parameters that have no slot was rejected for its
\* schema
C26_Witness ==
    /\ outcome = "register:SchemaConflict"
    /\ Key1 \in DOMAIN registry
    /\ FileCount(registry, Key1) > 0
    /\ SlotIndexes(registry, Key1, ParamsA) = {}

(* C27: two writers on one root *)
\* the slots a step adds to registry `new` are numbered by the slots
\* `old` held under their key, one slot per key at most
NumberedByOwnSlots(new, old) ==
    \A k \in DOMAIN new :
        /\ FileCount(new, k) <= FileCount(old, k) + 1
        /\ \A i \in FileIndexes(new, k) \ FileIndexes(old, k) :
              new[k].files[i].file_name
                 = PathJoin(EnsurePathExists(k), DataFileName(i - 1))

\* C27: of two registry instances on one root, a register() changes the
\* registry of its own instance only and numbers a new slot by the slots
\* its own instance holds; the registry file is the dump of one of the two
\* registries, never of both.  So two instances give different parameters
\* of a key the same file name, and the registry file loses one of the slots.
C27_TwoWritersLoseUpdates ==
    [][/\ registry' # registry => registry_2' = registry_2
       /\ NumberedByOwnSlots(registry', registry)
       /\ NumberedByOwnSlots(registry_2', registry_2)
       /\ registry_file' \in {UpdateRegistry(registry'),
                              UpdateRegistry(registry_2')}]_vars

\* each instance registered other parameters under a key and gave them the
\* same file name; the registry file holds one slot of the two
C27_Witness ==
    \E k \in DOMAIN registry \cap DOMAIN registry_2 :
        /\ k \in DOMAIN JsonLoad(registry_file)
        /\ FileCount(JsonLoad(registry_file), k) = 1
        /\ \E i \in FileIndexes(registry, k), j \in FileIndexes(registry_2, k) :
              /\ registry[k].files[i].parameters
                    # registry_2[k].files[j].parameters
              /\ registry[k].files[i].file_name
                    = registry_2[k].files[j].file_name
              /\ SlotIndexes(registry_2, k, registry[k].files[i].parameters) = {}
              /\ SlotIndexes(registry, k, registry_2[k].files[j].parameters) = {}

(* C28: what the constructor does to the root *)
\* C28: DataRegistry() on a root that does not exist returns an empty
\* registry and saves a registry file without keys, and the root is made;
\* on a root that exists it loads the registry file into the registry and
\* changes neither the file nor any directory or data file.
C28_ConstructorCreatesOrLoads ==
    [][/\ LET made == DataRegistryInit(FALSE, registry_file)
          IN  /\ made.registry = <<>>
              /\ DOMAIN JsonLoad(made.registry_file) = {}
       /\ (pc = "idle" /\ outcome = "constructed") =>
             /\ data_dir \in directories
             /\ registry = JsonLoad(registry_file)
       /\ Constructs =>
             /\ registry' = JsonLoad(registry_file)
             /\ registry_file' = registry_file
             /\ directories' = directories
             /\ data_files' = data_files]_vars

\* a registry was constructed on a root that already holds the slots of an
\* earlier process and those of this one
C28_Witness ==
    /\ outcome = "constructed"
    /\ Key1 \in DOMAIN registry
    /\ Key2 \in DOMAIN registry
    /\ FileCount(registry, Key1) > PreSlots

====
